---------------------------- MODULE Spec2Model ----------------------------
(***************************************************************************)
(* Model of eberl_report_filler.py: the Streamlit "Process Report" handler *)
(* (extract PDF text, scan the template for placeholders, query the LLM,   *)
(* fall back to mock data, fill the template) and the pure functions it    *)
(* is built from.                                                          *)
(*                                                                         *)
(* A Python str is a sequence of one-character strings.  A JSON value (the *)
(* result of json.loads, or a Python dict/None built by the code) is a     *)
(* record [type, str, num, items] carrying the Python type name.  A dict   *)
(* keeps its insertion order: items is a sequence of <<key, value>> pairs. *)
(***************************************************************************)
EXTENDS Integers, Sequences, FiniteSets, TLC

VARIABLES
    pc,             \* position of the script / handler
    template_file,  \* uploaded .docx: [present, paras], paras = paragraph texts
    pdf_files,      \* uploaded PDFs: sequence of [ok, pages]
    text,           \* handler local: result of extract_pdf_text
    placeholders,   \* handler local: result of extract_placeholders (a set)
    request,        \* message in flight to the completion endpoint
    field_values,   \* handler local: the Field Value Mapping (a JSON value)
    response,       \* what the remote call did (call_llm's res / content)
    filled_doc,     \* handler local: output of fill_template
    messages,       \* st.error / st.warning / st.success shown in this run
    download,       \* the download button is offered
    exception       \* the function whose uncaught exception ended the run

vars == << pc, template_file, pdf_files, text, placeholders, request,
           response, field_values, filled_doc, messages, download, exception >>

---------------------------------------------------------------------------
(* Python str primitives *)

Min(a, b) == IF a <= b THEN a ELSE b

\* str.isspace for the characters of the model: str.split() splits on these
Whitespace == {" ", "\t", "\n"}

\* s[i:i+len(p)] == p  (1-based i)
IsPrefixAt(s, p, i) ==
    /\ i + Len(p) - 1 <= Len(s)
    /\ \A j \in 1..Len(p) : s[i + j - 1] = p[j]

\* p in s
Contains(s, p) == \E i \in 1..(Len(s) - Len(p) + 1) : IsPrefixAt(s, p, i)

\* s.startswith(p), s.endswith(p)
StartsWith(s, p) == IsPrefixAt(s, p, 1)
EndsWith(s, p) == Len(p) <= Len(s) /\ IsPrefixAt(s, p, Len(s) - Len(p) + 1)

\* s.replace(old, new) for a non-empty old: the non-overlapping occurrences
\* of old, found left to right, are each replaced by new
RECURSIVE ReplaceFrom(_, _, _, _)
ReplaceFrom(s, old, new, i) ==
    IF i > Len(s) THEN << >>
    ELSE IF IsPrefixAt(s, old, i)
         THEN new \o ReplaceFrom(s, old, new, i + Len(old))
         ELSE << s[i] >> \o ReplaceFrom(s, old, new, i + 1)

\* s.replace(old, new, 1): only the first occurrence is replaced
RECURSIVE ReplaceFirstFrom(_, _, _, _)
ReplaceFirstFrom(s, old, new, i) ==
    IF i > Len(s) THEN << >>
    ELSE IF IsPrefixAt(s, old, i)
         THEN new \o SubSeq(s, i + Len(old), Len(s))
         ELSE << s[i] >> \o ReplaceFirstFrom(s, old, new, i + 1)

StrReplace_FirstOnly(s, old, new) == ReplaceFirstFrom(s, old, new, 1)

StrReplace(s, old, new) == ReplaceFrom(s, old, new, 1)

\* s.split(): the maximal runs of non-whitespace characters, in order
RECURSIVE SplitFrom(_, _, _)
SplitFrom(s, i, cur) ==
    IF i > Len(s) THEN (IF cur = << >> THEN << >> ELSE << cur >>)
    ELSE IF s[i] \in Whitespace
         THEN (IF cur = << >> THEN << >> ELSE << cur >>) \o SplitFrom(s, i + 1, << >>)
         ELSE SplitFrom(s, i + 1, Append(cur, s[i]))

Split(s) == SplitFrom(s, 1, << >>)

\* s.lstrip(chars), s.rstrip(chars), s.strip(chars): every leading and every
\* trailing character that is in chars is removed
RECURSIVE LStrip(_, _)
LStrip(s, chars) ==
    IF s # << >> /\ Head(s) \in chars THEN LStrip(Tail(s), chars) ELSE s

RECURSIVE RStrip(_, _)
RStrip(s, chars) ==
    IF s # << >> /\ s[Len(s)] \in chars
    THEN RStrip(SubSeq(s, 1, Len(s) - 1), chars) ELSE s

Strip(s, chars) == RStrip(LStrip(s, chars), chars)

\* s[:n]
Slice(s, n) == SubSeq(s, 1, Min(n, Len(s)))

\* f"[{key}]"
Bracketed(key) == << "[" >> \o key \o << "]" >>

---------------------------------------------------------------------------
(* Python / JSON values *)

JStr(s)    == [type |-> "str",      str |-> s,     num |-> 0, items |-> << >>]
JInt(n)    == [type |-> "int",      str |-> << >>, num |-> n, items |-> << >>]
JBool(b)   == [type |-> "bool",     str |-> << >>, num |-> IF b THEN 1 ELSE 0, items |-> << >>]
JNone      == [type |-> "NoneType", str |-> << >>, num |-> 0, items |-> << >>]
JList(xs)  == [type |-> "list",     str |-> << >>, num |-> 0, items |-> xs]
JDict(kvs) == [type |-> "dict",     str |-> << >>, num |-> 0, items |-> kvs]

\* bool(v), as `if not field_values` evaluates it
Truthy(v) ==
    CASE v.type = "dict"     -> Len(v.items) > 0
      [] v.type = "list"     -> Len(v.items) > 0
      [] v.type = "str"      -> Len(v.str) > 0
      [] v.type = "int"      -> v.num # 0
      [] v.type = "bool"     -> v.num # 0
      [] v.type = "NoneType" -> FALSE

\* the keys of a dict, as a set
Keys(d) == { d.items[i][1] : i \in 1..Len(d.items) }

\* d[key] for a key of the dict
Lookup(d, key) ==
    LET i == CHOOSE j \in 1..Len(d.items) : d.items[j][1] = key
    IN  d.items[i][2]

---------------------------------------------------------------------------
(* mock_data(): the fallback table *)

\* line 77: "XM8_INSURED_NAME": "NEW ZION HILL MISSIONARY BAPTIST CHURCH"
K_INSURED_NAME == <<"X", "M", "8", "_", "I", "N", "S", "U", "R", "E", "D", "_", "N", "A", "M", "E">>
V_INSURED_NAME == <<"N", "E", "W", " ", "Z", "I", "O", "N", " ", "H", "I", "L", "L", " ", "M", "I", "S", "S", "I", "O", "N", "A", "R", "Y", " ", "B", "A", "P", "T", "I", "S", "T", " ", "C", "H", "U", "R", "C", "H">>
\* line 78: "XM8_DATE_LOSS": "2024-10-21"
K_DATE_LOSS == <<"X", "M", "8", "_", "D", "A", "T", "E", "_", "L", "O", "S", "S">>
V_DATE_LOSS == <<"2", "0", "2", "4", "-", "1", "0", "-", "2", "1">>
\* line 79: "XM8_DATE_INSPECTED": "2024-10-21"
K_DATE_INSPECTED == <<"X", "M", "8", "_", "D", "A", "T", "E", "_", "I", "N", "S", "P", "E", "C", "T", "E", "D">>
V_DATE_INSPECTED == <<"2", "0", "2", "4", "-", "1", "0", "-", "2", "1">>
\* line 80: "XM8_INSURED_P_STREET": "Unknown Street"
K_INSURED_P_STREET == <<"X", "M", "8", "_", "I", "N", "S", "U", "R", "E", "D", "_", "P", "_", "S", "T", "R", "E", "E", "T">>
V_INSURED_P_STREET == <<"U", "n", "k", "n", "o", "w", "n", " ", "S", "t", "r", "e", "e", "t">>
\* line 81: "XM8_INSURED_P_CITY": "Unknown City"
K_INSURED_P_CITY == <<"X", "M", "8", "_", "I", "N", "S", "U", "R", "E", "D", "_", "P", "_", "C", "I", "T", "Y">>
V_INSURED_P_CITY == <<"U", "n", "k", "n", "o", "w", "n", " ", "C", "i", "t", "y">>
\* line 82: "XM8_INSURED_P_STATE": "TX"
K_INSURED_P_STATE == <<"X", "M", "8", "_", "I", "N", "S", "U", "R", "E", "D", "_", "P", "_", "S", "T", "A", "T", "E">>
V_INSURED_P_STATE == <<"T", "X">>
\* line 83: "XM8_INSURED_P_ZIP": "99999"
K_INSURED_P_ZIP == <<"X", "M", "8", "_", "I", "N", "S", "U", "R", "E", "D", "_", "P", "_", "Z", "I", "P">>
V_INSURED_P_ZIP == <<"9", "9", "9", "9", "9">>
\* line 84: "XM8_TOL_DESC": "Wind"
K_TOL_DESC == <<"X", "M", "8", "_", "T", "O", "L", "_", "D", "E", "S", "C">>
V_TOL_DESC == <<"W", "i", "n", "d">>
\* line 85: "XM8_ESTIMATOR_NAME": "Steven Kujawski"
K_ESTIMATOR_NAME == <<"X", "M", "8", "_", "E", "S", "T", "I", "M", "A", "T", "O", "R", "_", "N", "A", "M", "E">>
V_ESTIMATOR_NAME == <<"S", "t", "e", "v", "e", "n", " ", "K", "u", "j", "a", "w", "s", "k", "i">>
\* line 86: "XM8_ESTIMATOR_E_MAIL": "commercialclaims@eberls.com"
K_ESTIMATOR_E_MAIL == <<"X", "M", "8", "_", "E", "S", "T", "I", "M", "A", "T", "O", "R", "_", "E", "_", "M", "A", "I", "L">>
V_ESTIMATOR_E_MAIL == <<"c", "o", "m", "m", "e", "r", "c", "i", "a", "l", "c", "l", "a", "i", "m", "s", "@", "e", "b", "e", "r", "l", "s", ".", "c", "o", "m">>
\* line 87: "XM8_ESTIMATOR_C_PHONE": "(800) 607-3604"
K_ESTIMATOR_C_PHONE == <<"X", "M", "8", "_", "E", "S", "T", "I", "M", "A", "T", "O", "R", "_", "C", "_", "P", "H", "O", "N", "E">>
V_ESTIMATOR_C_PHONE == <<"(", "8", "0", "0", ")", " ", "6", "0", "7", "-", "3", "6", "0", "4">>
\* line 88: "XM8_DATE_CURRENT": "2024-12-16"
K_DATE_CURRENT == <<"X", "M", "8", "_", "D", "A", "T", "E", "_", "C", "U", "R", "R", "E", "N", "T">>
V_DATE_CURRENT == <<"2", "0", "2", "4", "-", "1", "2", "-", "1", "6">>
mock_data ==
    JDict(<< <<K_INSURED_NAME, JStr(V_INSURED_NAME)>>,
             <<K_DATE_LOSS, JStr(V_DATE_LOSS)>>,
             <<K_DATE_INSPECTED, JStr(V_DATE_INSPECTED)>>,
             <<K_INSURED_P_STREET, JStr(V_INSURED_P_STREET)>>,
             <<K_INSURED_P_CITY, JStr(V_INSURED_P_CITY)>>,
             <<K_INSURED_P_STATE, JStr(V_INSURED_P_STATE)>>,
             <<K_INSURED_P_ZIP, JStr(V_INSURED_P_ZIP)>>,
             <<K_TOL_DESC, JStr(V_TOL_DESC)>>,
             <<K_ESTIMATOR_NAME, JStr(V_ESTIMATOR_NAME)>>,
             <<K_ESTIMATOR_E_MAIL, JStr(V_ESTIMATOR_E_MAIL)>>,
             <<K_ESTIMATOR_C_PHONE, JStr(V_ESTIMATOR_C_PHONE)>>,
             <<K_DATE_CURRENT, JStr(V_DATE_CURRENT)>> >>)

---------------------------------------------------------------------------
(* The functions of the program *)

\* A lone surrogate code point: the one character of the model that
\* str.encode("utf-8", "ignore") cannot encode and drops
Surrogate == "\\ud800"

\* clean_text: text.encode("utf-8", "ignore").decode("utf-8")
IsEncodable(c) == c # Surrogate
clean_text(t) == SelectSeq(t, IsEncodable)

\* the pages of one opened PDF, concatenated in page order
RECURSIVE PagesText(_, _)
PagesText(pages, i) ==
    IF i > Len(pages) THEN << >> ELSE pages[i] \o PagesText(pages, i + 1)

\* extract_pdf_text: fitz.open raises on a file that is no PDF, and nothing
\* catches it; otherwise the pages of all files in upload order, cleaned
RECURSIVE CombinedText(_, _)
CombinedText(files, i) ==
    IF i > Len(files) THEN << >>
    ELSE PagesText(files[i].pages, 1) \o CombinedText(files, i + 1)

extract_pdf_text(uploaded_pdfs) ==
    IF \E i \in 1..Len(uploaded_pdfs) : ~uploaded_pdfs[i].ok
    THEN [raised |-> TRUE,  value |-> << >>]
    ELSE [raised |-> FALSE, value |-> clean_text(CombinedText(uploaded_pdfs, 1))]

\* the inner loop without the endswith test
ParaPlaceholders_NoEndCheck(para) ==
    LET words == Split(para)
    IN  { Strip(words[i], {"[", "]"}) :
            i \in { j \in 1..Len(words) : StartsWith(words[j], << "[" >>) } }

\* the inner loop of extract_placeholders over the words of one paragraph
ParaPlaceholders(para) ==
    LET words == Split(para)
    IN  { Strip(words[i], {"[", "]"}) :
            i \in { j \in 1..Len(words) :
                      StartsWith(words[j], << "[" >>) /\ EndsWith(words[j], << "]" >>) } }

\* extract_placeholders: list(set) has no defined order, so the result is a set
extract_placeholders(paras) ==
    UNION { ParaPlaceholders(paras[i]) : i \in 1..Len(paras) }

\* the number of characters of pdf_text that call_llm embeds in the prompt
TextLimit == 6000

\* the prompt with {pdf_text} in place of {pdf_text[:6000]}
BuildRequest_NoSlice(pdf_text, names) ==
    [sent |-> TRUE, placeholders |-> names, text |-> pdf_text]

\* call_llm up to requests.post: the prompt carries the placeholder list and
\* pdf_text[:6000]; model and headers are fixed
BuildRequest(pdf_text, names) ==
    [sent |-> TRUE, placeholders |-> names, text |-> Slice(pdf_text, TextLimit)]

NoRequest == [sent |-> FALSE, placeholders |-> {}, text |-> << >>]

\* what the remote call can do.  A reply is what the completion's content
\* parses to; the four failures all raise inside the try block
FailureKinds == {"transport_error", "http_error", "bad_structure", "bad_json"}
Failure(kind) == [kind |-> kind, value |-> JNone]
Reply(v)      == [kind |-> "json", value |-> v]

\* call_llm from requests.post on: the parsed content, or {} with an
\* st.error when anything in the try block raised
call_llm_result(outcome) ==
    IF outcome.kind = "json"
    THEN [value |-> outcome.value, errors |-> << >>]
    ELSE [value |-> JDict(<< >>),  errors |-> << "llm_error" >>]

\* the inner loop with para.text.replace(key, val): the name without its
\* brackets is what gets replaced
RECURSIVE FillPara_Unbracketed(_, _, _)
FillPara_Unbracketed(para, items, k) ==
    IF k > Len(items) THEN [raised |-> FALSE, text |-> para]
    ELSE LET key == items[k][1]
             val == items[k][2]
         IN  IF Contains(para, Bracketed(key))
             THEN IF val.type = "str"
                  THEN FillPara_Unbracketed(StrReplace(para, key, val.str), items, k + 1)
                  ELSE [raised |-> TRUE, text |-> para]
             ELSE FillPara_Unbracketed(para, items, k + 1)

\* the inner loop with a break after the first key that was found
RECURSIVE FillPara_BreakAfterFirst(_, _, _)
FillPara_BreakAfterFirst(para, items, k) ==
    IF k > Len(items) THEN [raised |-> FALSE, text |-> para]
    ELSE LET key == items[k][1]
             val == items[k][2]
         IN  IF Contains(para, Bracketed(key))
             THEN IF val.type = "str"
                  THEN [raised |-> FALSE,
                        text |-> StrReplace(para, Bracketed(key), val.str)]
                  ELSE [raised |-> TRUE, text |-> para]
             ELSE FillPara_BreakAfterFirst(para, items, k + 1)

\* the inner loop of fill_template over field_values.items() for one
\* paragraph, from the k-th item on; val that is no str makes str.replace
\* raise TypeError
RECURSIVE FillPara(_, _, _)
FillPara(para, items, k) ==
    IF k > Len(items) THEN [raised |-> FALSE, text |-> para]
    ELSE LET key == items[k][1]
             val == items[k][2]
         IN  IF Contains(para, Bracketed(key))
             THEN IF val.type = "str"
                  THEN FillPara(StrReplace(para, Bracketed(key), val.str), items, k + 1)
                  ELSE [raised |-> TRUE, text |-> para]
             ELSE FillPara(para, items, k + 1)

\* fill_template: field_values.items() raises AttributeError for anything
\* but a dict, once the first paragraph is reached
fill_template(paras, fv) ==
    IF fv.type # "dict"
    THEN [raised |-> Len(paras) > 0, paras |-> paras]
    ELSE LET res == [i \in 1..Len(paras) |-> FillPara(paras[i], fv.items, 1)]
         IN  [raised |-> \E i \in 1..Len(paras) : res[i].raised,
              paras  |-> [i \in 1..Len(paras) |-> res[i].text]]

---------------------------------------------------------------------------
(* Uploaded files and the remote service's behaviours *)

Doc(paras) == [present |-> TRUE,  paras |-> paras]
NoFile     == [present |-> FALSE, paras |-> << >>]

Pdf(pages) == [ok |-> TRUE,  pages |-> pages]
CorruptPdf == [ok |-> FALSE, pages |-> << >>]

NoResponse == [kind |-> "none", value |-> JNone]

\* all concatenations of at most n pieces
RECURSIVE ConcatsUpTo(_, _)
ConcatsUpTo(pieces, n) ==
    IF n = 0 THEN { << >> }
    ELSE LET shorter == ConcatsUpTo(pieces, n - 1)
         IN  shorter \cup { p \o q : p \in pieces, q \in shorter }

\* template paragraphs of the handler's runs are built from these pieces
MaxTemplatePieces == 2
NameA == << "A" >>
TemplatePieces ==
    { Bracketed(K_TOL_DESC), Bracketed(K_INSURED_P_STATE), Bracketed(NameA),
      << "[" >>, << "]" >>, << " " >>, << "E" >> }
TemplateParas == ConcatsUpTo(TemplatePieces, MaxTemplatePieces)
SecondPara == Bracketed(K_DATE_LOSS) \o << " " >> \o Bracketed(NameA)
Templates ==
    { << >> } \cup { << p >> : p \in TemplateParas }
              \cup { << p, SecondPara >> : p \in TemplateParas }

PdfUploads ==
    { << Pdf(<< << "a", "b" >> >>) >>,
      << Pdf(<< << "a" >>, << "b", Surrogate >> >>), Pdf(<< << "c" >> >>) >>,
      << Pdf(<< >>) >>,
      << CorruptPdf >>,
      << Pdf(<< << "a" >> >>), CorruptPdf >> }

\* what json.loads(content) can return
Replies ==
    << JDict(<< >>), JNone, JList(<< >>), JStr(<< >>), JInt(0), JBool(FALSE),
       JList(<< JStr(<< "x" >>) >>), JStr(<< "x" >>), JInt(7), JBool(TRUE),
       JDict(<< << NameA, JStr(<< "v" >>) >> >>),
       JDict(<< << K_TOL_DESC, JStr(<< "H", "a", "i", "l" >>) >> >>),
       JDict(<< << NameA, JNone >> >>),
       JDict(<< << NameA, JInt(7) >> >>),
       JDict(<< << K_TOL_DESC, JStr(<< "H", "a", "i", "l" >>) >>, << NameA, JNone >> >>) >>

Outcomes ==
    { Failure(k) : k \in FailureKinds } \cup { Reply(Replies[i]) : i \in 1..Len(Replies) }

---------------------------------------------------------------------------
(* The script as a state machine *)

\* the handler's locals before any of them is assigned
LocalsReset ==
    /\ text' = << >>
    /\ placeholders' = {}
    /\ request' = NoRequest
    /\ response' = NoResponse
    /\ field_values' = JNone
    /\ filled_doc' = NoFile
    /\ download' = FALSE
    /\ exception' = "none"

Init ==
    /\ pc = "idle"
    /\ template_file = NoFile
    /\ pdf_files = << >>
    /\ text = << >>
    /\ placeholders = {}
    /\ request = NoRequest
    /\ response = NoResponse
    /\ field_values = JNone
    /\ filled_doc = NoFile
    /\ messages = << >>
    /\ download = FALSE
    /\ exception = "none"

\* st.file_uploader for the template: an upload reruns the script
UploadTemplate ==
    /\ pc = "idle"
    /\ \E t \in Templates : template_file' = Doc(t)
    /\ messages' = << >>
    /\ UNCHANGED << pc, pdf_files, text, placeholders, request, response,
                    field_values, filled_doc, download, exception >>

\* st.file_uploader for the PDFs
UploadPdfs ==
    /\ pc = "idle"
    /\ \E p \in PdfUploads : pdf_files' = p
    /\ messages' = << >>
    /\ UNCHANGED << pc, template_file, text, placeholders, request, response,
                    field_values, filled_doc, download, exception >>

\* st.button("Process Report") with its input validation
ClickProcess ==
    /\ pc = "idle"
    /\ IF ~template_file.present \/ pdf_files = << >>
       THEN /\ messages' = << "input_error" >>
            /\ pc' = "idle"
       ELSE /\ messages' = << >>
            /\ pc' = "extract"
    /\ UNCHANGED << template_file, pdf_files, text, placeholders, request,
                    response, field_values, filled_doc, download, exception >>

\* text = extract_pdf_text(pdf_files)
ExtractText ==
    /\ pc = "extract"
    /\ LET r == extract_pdf_text(pdf_files)
       IN  IF r.raised
           THEN /\ pc' = "crashed"
                /\ exception' = "extract_pdf_text"
                /\ text' = text
           ELSE /\ pc' = "scan"
                /\ text' = r.value
                /\ exception' = exception
    /\ UNCHANGED << template_file, pdf_files, placeholders, request, response,
                    field_values, filled_doc, messages, download >>

\* placeholders = extract_placeholders(template_file)
ScanPlaceholders ==
    /\ pc = "scan"
    /\ placeholders' = extract_placeholders(template_file.paras)
    /\ pc' = "send"
    /\ UNCHANGED << template_file, pdf_files, text, request, response,
                    field_values, filled_doc, messages, download, exception >>

\* call_llm up to requests.post: the request leaves
SendRequest ==
    /\ pc = "send"
    /\ request' = BuildRequest(text, placeholders)
    /\ pc' = "await"
    /\ UNCHANGED << template_file, pdf_files, text, placeholders, response,
                    field_values, filled_doc, messages, download, exception >>

\* the handler without its fallback: whatever call_llm returned is used
ReceiveReply_NoFallback ==
    /\ pc = "await"
    /\ \E outcome \in Outcomes :
         LET r == call_llm_result(outcome)
         IN  /\ response' = outcome
             /\ field_values' = r.value
             /\ messages' = messages \o r.errors
    /\ request' = NoRequest
    /\ pc' = "fill"
    /\ UNCHANGED << template_file, pdf_files, text, placeholders, filled_doc,
                    download, exception >>

\* the rest of call_llm and the handler's fallback to mock_data
ReceiveReply ==
    /\ pc = "await"
    /\ \E outcome \in Outcomes :
         LET r == call_llm_result(outcome)
         IN  /\ response' = outcome
             /\ IF ~Truthy(r.value)
                THEN /\ field_values' = mock_data
                     /\ messages' = messages \o r.errors \o << "mock_warning" >>
                ELSE /\ field_values' = r.value
                     /\ messages' = messages \o r.errors
    /\ request' = NoRequest
    /\ pc' = "fill"
    /\ UNCHANGED << template_file, pdf_files, text, placeholders, filled_doc,
                    download, exception >>

\* filled_doc = fill_template(template_file, field_values), st.success and
\* the download button
FillTemplate ==
    /\ pc = "fill"
    /\ LET r == fill_template(template_file.paras, field_values)
       IN  IF r.raised
           THEN /\ pc' = "crashed"
                /\ exception' = "fill_template"
                /\ UNCHANGED << filled_doc, messages, download >>
           ELSE /\ pc' = "done"
                /\ filled_doc' = Doc(r.paras)
                /\ messages' = Append(messages, "success")
                /\ download' = TRUE
                /\ exception' = exception
    /\ UNCHANGED << template_file, pdf_files, text, placeholders, request,
                    response, field_values >>

\* any later interaction reruns the script from the top: the handler's
\* locals and what the page showed are gone, the uploads stay
Rerun ==
    /\ pc \in {"done", "crashed"}
    /\ pc' = "idle"
    /\ messages' = << >>
    /\ LocalsReset
    /\ UNCHANGED << template_file, pdf_files >>

Next ==
    \/ UploadTemplate
    \/ UploadPdfs
    \/ ClickProcess
    \/ ExtractText
    \/ ScanPlaceholders
    \/ SendRequest
    \/ ReceiveReply
    \/ FillTemplate
    \/ Rerun

Spec == Init /\ [][Next]_vars

---------------------------------------------------------------------------
(* extract_placeholders on its own: the handler stands before the scan *)

\* a run that passed validation and extraction with this upload
BasePdfs == << Pdf(<< << "a", "b" >> >>) >>

MidRun(position, paras, pdfs) ==
    /\ pc = position
    /\ template_file = Doc(paras)
    /\ pdf_files = pdfs
    /\ text = extract_pdf_text(pdfs).value
    /\ request = NoRequest
    /\ filled_doc = NoFile
    /\ messages = << >>
    /\ download = FALSE
    /\ exception = "none"

MaxScanLen == 5
ScanAlphabet == { << "[" >>, << "]" >>, << "A" >>, << " " >> }
ScanParas == ConcatsUpTo(ScanAlphabet, MaxScanLen)

NameB_C == << "B", "_", "C" >>
\* paragraphs with the tokens [A], [B_C], plain, [D]E
ExampleTokens ==
    << << "[", "A", "]", " ", "[", "B", "_", "C", "]" >>,
       << "p", "l", "a", "i", "n", " ", "[", "D", "]", "E" >> >>
\* the single token [A][B]
ExampleAdjacent == << << "[", "A", "]", "[", "B", "]" >> >>
\* the single token []
ExampleEmpty == << << "x", "\t", "[", "]", "\n" >> >>

ScanTemplates ==
    { << p >> : p \in ScanParas } \cup { ExampleTokens, ExampleAdjacent, ExampleEmpty }

InitScan ==
    /\ \E t \in ScanTemplates : MidRun("scan", t, BasePdfs)
    /\ placeholders = {}
    /\ response = NoResponse
    /\ field_values = JNone

SpecScan == InitScan /\ [][ScanPlaceholders]_vars

---------------------------------------------------------------------------
(* call_llm's request on its own: the handler stands before the call *)

\* extracted texts whose length is within MaxMargin of the limit; the
\* characters from position split + 1 on are "b", those before are "a"
MaxMargin == 3
LongText(n, split) == [i \in 1..n |-> IF i <= split THEN "a" ELSE "b"]
LongTexts ==
    { LongText(n, split) :
        n \in (TextLimit - MaxMargin)..(TextLimit + MaxMargin),
        split \in (TextLimit - MaxMargin)..TextLimit }

InitTrunc ==
    /\ \E t \in { ExampleTokens, ExampleAdjacent, ExampleEmpty } :
       \E long \in LongTexts :
            /\ MidRun("send", t, << Pdf(<< long >>) >>)
            /\ placeholders = extract_placeholders(t)
    /\ response = NoResponse
    /\ field_values = JNone

SpecTrunc == InitTrunc /\ [][SendRequest]_vars

---------------------------------------------------------------------------
(* fill_template on its own: the handler stands before the fill, with a   *)
(* mapping of names to strings that the remote service returned            *)

MaxFillPieces == 3
NameX == << "X" >>
NameY == << "Y" >>
NameXBracket == << "X", "]" >>
FillPieces ==
    { Bracketed(NameX), Bracketed(NameY), << "[" >>, << "]" >>, << "X" >> }
FillParas == ConcatsUpTo(FillPieces, MaxFillPieces)
FillTemplates ==
    { << p >> : p \in FillParas } \cup { << Bracketed(NameY), p >> : p \in FillPieces }

FillKeys == { NameX, NameY, NameXBracket }
FillValues == { << >>, << "z" >>, NameY, Bracketed(NameY) }
FillMappings ==
    { JDict(<< << k, JStr(v) >> >>) : k \in FillKeys, v \in FillValues }
    \cup { JDict(<< << kk[1], JStr(v1) >>, << kk[2], JStr(v2) >> >>) :
             kk \in { p \in FillKeys \X FillKeys : p[1] # p[2] },
             v1 \in FillValues, v2 \in FillValues }

InitFill ==
    /\ \E t \in FillTemplates : MidRun("fill", t, BasePdfs)
    /\ placeholders = extract_placeholders(template_file.paras)
    /\ \E m \in FillMappings :
            /\ response = Reply(m)
            /\ field_values = m

\* fill_template applied a second time, to the filled document
Refill ==
    /\ pc = "done"
    /\ LET r == fill_template(filled_doc.paras, field_values)
       IN  IF r.raised
           THEN /\ pc' = "crashed"
                /\ exception' = "fill_template"
                /\ filled_doc' = filled_doc
           ELSE /\ pc' = "refilled"
                /\ filled_doc' = Doc(r.paras)
                /\ exception' = exception
    /\ UNCHANGED << template_file, pdf_files, text, placeholders, request,
                    response, field_values, messages, download >>

NextFill == FillTemplate \/ Refill

SpecFill == InitFill /\ [][NextFill]_vars

---------------------------------------------------------------------------
(* Vocabulary of the properties *)

Shown(kind) == \E i \in 1..Len(messages) : messages[i] = kind

IsBracket(c) == c \in {"[", "]"}
BracketFree(s) == \A i \in 1..Len(s) : ~IsBracket(s[i])

\* the brackets of s pair up without nesting: "[", "]", "[", "]", ...
Flat(s) ==
    LET b == SelectSeq(s, IsBracket)
    IN  /\ Len(b) % 2 = 0
        /\ \A i \in 1..Len(b) : b[i] = (IF i % 2 = 1 THEN "[" ELSE "]")

\* one pass over s from position i: wherever the bracketed form of a key of
\* d starts, that key's value stands in its place
RECURSIVE Subst(_, _, _)
Subst(s, d, i) ==
    IF i > Len(s) THEN << >>
    ELSE IF \E key \in Keys(d) : IsPrefixAt(s, Bracketed(key), i)
         THEN LET key == CHOOSE k \in Keys(d) : IsPrefixAt(s, Bracketed(k), i)
              IN  Lookup(d, key).str \o Subst(s, d, i + Len(key) + 2)
         ELSE << s[i] >> \o Subst(s, d, i + 1)

\* the dict with its items in another insertion order
Perms(n) == { f \in [1..n -> 1..n] : \A i, j \in 1..n : f[i] = f[j] => i = j }
Reordered(d, f) == JDict([i \in 1..Len(d.items) |-> d.items[f[i]]])

\* the dict restricted to the keys in names
Restricted(d, names) ==
    LET keep == { i \in 1..Len(d.items) : d.items[i][1] \in names }
        Rank(i) == Cardinality({ j \in keep : j <= i })
    IN  JDict([n \in 1..Cardinality(keep) |->
                 d.items[CHOOSE i \in keep : Rank(i) = n]])

\* keys and values without brackets, in a paragraph without nested brackets
PlainMapping(d) ==
    \A i \in 1..Len(d.items) :
        BracketFree(d.items[i][1]) /\ BracketFree(d.items[i][2].str)
PlainTemplate(paras) == \A i \in 1..Len(paras) : Flat(paras[i])

\* no key's bracketed form is a substring of another key's value
NoKeyInOtherValue(d) ==
    \A i, j \in 1..Len(d.items) :
        i # j => ~Contains(d.items[i][2].str, Bracketed(d.items[j][1]))

\* no bracketed key of d occurs in s
NoKeyIn(s, d) == \A key \in Keys(d) : ~Contains(s, Bracketed(key))

\* the words of a paragraph that begin with "[" and end with "]"
BracketedWords(para) ==
    LET words == Split(para)
    IN  { words[j] : j \in { k \in 1..Len(words) :
            StartsWith(words[k], << "[" >>) /\ EndsWith(words[k], << "]" >>) } }

\* a word without its first and its last character
StripOne(w) == SubSeq(w, 2, Len(w) - 1)

---------------------------------------------------------------------------
(* Properties of the handler's runs (Spec) *)

\* C1: after any of the four failures of the remote call, call_llm has
\* returned the empty mapping, the handler holds mock_data unchanged, the run
\* is not aborted, and once it is done the filled document is offered and
\* has every [key] of a fallback key replaced by that key's fallback value.
C1_FallbackOnFailure ==
    response.kind \in FailureKinds =>
        /\ call_llm_result(response).value = JDict(<< >>)
        /\ field_values = mock_data
        /\ Shown("llm_error") /\ Shown("mock_warning")
        /\ pc \in {"fill", "done"}
        /\ pc = "done" =>
              /\ filled_doc.present /\ download
              /\ Len(filled_doc.paras) = Len(template_file.paras)
              /\ \A i \in 1..Len(template_file.paras) :
                    /\ filled_doc.paras[i] = Subst(template_file.paras[i], mock_data, 1)
                    /\ NoKeyIn(filled_doc.paras[i], mock_data)

C1_Witness ==
    /\ pc = "done"
    /\ response.kind = "http_error"
    /\ template_file.paras = << Bracketed(K_TOL_DESC) \o Bracketed(NameA), SecondPara >>
    /\ filled_doc.paras = << V_TOL_DESC \o Bracketed(NameA),
                             V_DATE_LOSS \o << " " >> \o Bracketed(NameA) >>

\* C4: a key that is not in the Placeholder Set of the same template has no
\* effect: the filled paragraphs are those of filling with the mapping
\* restricted to the Placeholder Set.
C4_ExtraKeysIgnored ==
    (pc = "done" /\ field_values.type = "dict") =>
        filled_doc.paras =
            fill_template(template_file.paras,
                          Restricted(field_values, placeholders)).paras

\* C9: whenever the remote call succeeded and its content parsed as JSON,
\* the mapping handed to fill_template is the parsed reply, and no
\* mock-values warning is shown.
C9_ReplyUsedVerbatim ==
    (response.kind = "json" /\ pc \in {"fill", "done", "crashed"}) =>
        /\ field_values = response.value
        /\ ~Shown("mock_warning")

\* C10: whatever the remote service does, the Filler step does not abort a
\* run that passed validation, extraction and scanning.
C10_FillerNeverAborts ==
    pc = "crashed" => exception # "fill_template"

---------------------------------------------------------------------------
(* Properties of call_llm's request (SpecTrunc) *)

\* C8: the text in the request is exactly the first 6000 characters of the
\* extracted text (all of it when shorter), so nothing at offset 6000 or
\* beyond is sent, and nothing is shown to the user about it.
C8_TruncationBoundary ==
    request.sent =>
        /\ Len(request.text) = Min(Len(text), TextLimit)
        /\ \A i \in 1..Len(request.text) : request.text[i] = text[i]
        /\ messages = << >>

C8_Witness ==
    /\ request.sent
    /\ Len(text) > TextLimit
    /\ Len(request.text) = TextLimit
    /\ text[TextLimit + 1] = "b"
    /\ \A i \in 1..Len(request.text) : request.text[i] = "a"

---------------------------------------------------------------------------
(* Properties of extract_placeholders (SpecScan) *)

\* C3: the Placeholder Set is exactly the set of the words that begin with
\* "[" and end with "]", each without exactly one leading and one trailing
\* bracket: name is a member iff [name] is a word of some paragraph.
C3_StripsOneBracketEach ==
    pc = "send" =>
        placeholders =
            UNION { { StripOne(w) : w \in BracketedWords(template_file.paras[i]) } :
                    i \in 1..Len(template_file.paras) }

\* C7: the tokens plain and [D]E contribute no name, so [A], [B_C], plain,
\* [D]E give exactly {A, B_C}; the token [A][B] gives the one name A][B; the
\* token [] gives the empty name; and a paragraph that is one word which
\* does not both begin with "[" and end with "]" gives no name.
C7_DegenerateTokens ==
    pc = "send" =>
        /\ template_file.paras = ExampleTokens => placeholders = { NameA, NameB_C }
        /\ template_file.paras = ExampleAdjacent =>
                placeholders = { << "A", "]", "[", "B" >> }
        /\ template_file.paras = ExampleEmpty => placeholders = { << >> }
        /\ \A i \in 1..Len(template_file.paras) :
              LET words == Split(template_file.paras[i])
              IN  (Len(template_file.paras) = 1 /\ Len(words) = 1
                   /\ ~(Head(words[1]) = "[" /\ words[1][Len(words[1])] = "]"))
                  => placeholders = {}

C7_Witness ==
    /\ pc = "send"
    /\ template_file.paras = ExampleTokens
    /\ placeholders = { NameA, NameB_C }

---------------------------------------------------------------------------
(* Properties of fill_template (SpecFill) *)

\* the names without brackets that the paragraphs of SpecFill can hold
PlainNames == { k \in FillKeys : BracketFree(k) }

\* every [name] of the mapping stands replaced by its value, and every [y]
\* of the names ys that are no keys still stands in the output
FilledAsMapped(para, out, d, ys) ==
    /\ out = Subst(para, d, 1)
    /\ \A y \in ys \ Keys(d) :
          Contains(para, Bracketed(y)) => Contains(out, Bracketed(y))

\* C2 as stated: for every template and every mapping of names to strings,
\* each paragraph has every [name] replaced by the name's value, every [Y]
\* of a name Y that is no key is still present, and a paragraph with no
\* [key] is unchanged.
C2_EveryOccurrenceReplaced ==
    pc = "done" =>
        \A i \in 1..Len(template_file.paras) :
            /\ FilledAsMapped(template_file.paras[i], filled_doc.paras[i],
                              field_values, FillKeys)
            /\ NoKeyIn(template_file.paras[i], field_values) =>
                  filled_doc.paras[i] = template_file.paras[i]

\* C2 amended: for mappings whose keys and values hold no bracket, every
\* paragraph whose brackets are not nested has every [name] replaced by the
\* name's value and keeps every [Y] of a bracket-free name Y that is no key;
\* for every mapping, a paragraph with no [key] is unchanged.
C2_PlainOccurrencesReplaced ==
    pc = "done" =>
        \A i \in 1..Len(template_file.paras) :
            /\ (PlainMapping(field_values) /\ Flat(template_file.paras[i])) =>
                  FilledAsMapped(template_file.paras[i], filled_doc.paras[i],
                                 field_values, PlainNames)
            /\ NoKeyIn(template_file.paras[i], field_values) =>
                  filled_doc.paras[i] = template_file.paras[i]

C2_Witness ==
    /\ pc = "done"
    /\ template_file.paras = << Bracketed(NameX) \o Bracketed(NameY) \o << "X" >> >>
    /\ field_values = JDict(<< << NameX, JStr(<< "z" >>) >> >>)
    /\ filled_doc.paras = << << "z" >> \o Bracketed(NameY) \o << "X" >> >>

\* the paragraphs that filling with the items in every other order gives
SameInEveryOrder ==
    \A f \in Perms(Len(field_values.items)) :
        fill_template(template_file.paras, Reordered(field_values, f)).paras
            = filled_doc.paras

\* C5 as stated: when no key's bracketed form is a substring of another
\* key's value, every iteration order of the mapping gives the same text.
C5_OrderIrrelevant ==
    (pc = "done" /\ NoKeyInOtherValue(field_values)) => SameInEveryOrder

\* C5 amended: every iteration order gives the same text when keys and
\* values hold no bracket and the paragraphs' brackets are not nested.
C5_OrderIrrelevantPlain ==
    (pc = "done" /\ PlainMapping(field_values) /\ PlainTemplate(template_file.paras))
        => SameInEveryOrder

C5_Witness ==
    /\ pc = "done"
    /\ template_file.paras = << Bracketed(NameX) \o Bracketed(NameY) >>
    /\ field_values = JDict(<< << NameX, JStr(<< "z" >>) >>, << NameY, JStr(NameY) >> >>)
    /\ filled_doc.paras = << << "z", "Y" >> >>

\* C6 as stated: when no value contains the bracketed form of another key,
\* the second fill leaves every paragraph unchanged.
C6_SecondFillNoOp ==
    [][(pc = "done" /\ NoKeyInOtherValue(field_values)) => filled_doc' = filled_doc]_vars

\* C6 amended: when keys and values hold no bracket and the paragraphs'
\* brackets are not nested, no [key] is left after the first fill and the
\* second fill leaves every paragraph unchanged.
C6_SecondFillNoOpPlain ==
    [][(pc = "done" /\ PlainMapping(field_values) /\ PlainTemplate(template_file.paras))
        => /\ \A i \in 1..Len(filled_doc.paras) : NoKeyIn(filled_doc.paras[i], field_values)
           /\ filled_doc' = filled_doc]_vars

C6_Witness ==
    /\ pc = "refilled"
    /\ template_file.paras = << Bracketed(NameX) \o Bracketed(NameX) \o << "X" >> >>
    /\ field_values = JDict(<< << NameX, JStr(<< "z" >>) >> >>)
    /\ filled_doc.paras = << << "z", "z", "X" >> >>

====
